---- MODULE Spec2Model ----
(***************************************************************************)
(* Model of the theme guide's page script (script.js) and of the theme     *)
(* toggle its README documents.  The document is the state: classes,       *)
(* attributes, inline styles, the listeners each initializer registered,   *)
(* and the callbacks (idle callback, timers, animation frames, clipboard   *)
(* promises) that are waiting in the browser's queues.  One action is one  *)
(* task of the event loop: a whole event dispatch (every listener the      *)
(* event reaches, in registration order, then the listeners of its         *)
(* ancestors), or one callback.                                            *)
(***************************************************************************)
EXTENDS Integers, Sequences, FiniteSets, TLC

\* ------------------------------------------------------------------ bounds
NLinks == 2         \* '.nav__link' elements in the host markup
NSections == 2      \* '.section' elements in the host markup, each with an id
MaxClicks == 2      \* color card clicks that start a clipboard write
MaxLoads == 2       \* page loads (the first one and the reloads)
MaxRestarts == 2    \* times the animation box is replaced by a clone
NButtons == 2       \* '.btn' elements in the host markup
MaxRipples == 2     \* button clicks that create a ripple

Links == 1..NLinks
Sections == 1..NSections
Buttons == 1..NButtons
\* The '.color-card' elements of the host markup.
Cards == {"primary", "secondary"}

\* The features init wires up, in the order init names them.
Features ==
  {"theme", "menu", "scroll", "reveal", "copy", "demo", "activeNav", "ripple", "perf"}

\* Those init runs itself, and those it hands to initWhenIdle.
ImmediateFeatures == {"theme", "menu", "scroll"}
DeferredFeatures == Features \ ImmediateFeatures

VARIABLES
  markup,        \* host markup the script finds: which elements exist, hrefs
  env,           \* browser capabilities and preferences, read by the script
  readyState,    \* document.readyState
  booted,        \* the script's top level (the IIFE) has run
  dclListeners,  \* DOMContentLoaded listeners registered by the script
  initRuns,      \* times init has run
  idlePending,   \* callbacks waiting in requestIdleCallback's queue
  timerPending,  \* callbacks waiting on init's setTimeout(callback, 1)
  deferredRuns,  \* times the deferred block has started
  reg,           \* feature -> number of times its listeners were registered
  menu,          \* [active, bodyOpen, aria]: navMenu 'active', body 'menu-open', aria-expanded
  activeLinks,   \* nav links carrying class 'active'
  last,          \* history: the task that ran last (see Event)
  onlyToggles,   \* history: since init, every input event was a toggle click
  toggleParity,  \* history: number of those toggle clicks, modulo 2
  sectionStyle,  \* section -> inline style the script wrote (opacity, transform, transition)
  demoBox,       \* the '.animation-box' now in the document (see demoBox0)
  ripples,       \* ripple elements created, in order: button, attachment, timer
  rippleStyles,  \* <style id="ripple-animation"> elements in <head>
  cardText,      \* card -> textContent of its '.color-card__value'
  clicks,        \* clipboard writes started, in order: card, value, promise state, effects
  toasts,        \* toast elements created, in order: text, style, attachment, callbacks
  dataTheme,     \* 'data-theme' attribute of <html> (<<>>: absent)
  storage,       \* localStorage item 'theme' (<<>>: absent)
  storedBy,      \* history: who wrote that item last ("initial": not this script)
  loads          \* history: page loads so far

menuVars == <<menu, onlyToggles, toggleParity>>
rippleVars == <<ripples, rippleStyles>>
copyVars == <<cardText, clicks, toasts>>
themeVars == <<dataTheme, storage, storedBy>>
lifecycleVars ==
  <<readyState, booted, dclListeners, initRuns, idlePending, timerPending,
    deferredRuns, reg>>
configVars == <<markup, env, loads>>

vars ==
  <<markup, env, loads, readyState, booted, dclListeners, initRuns, idlePending,
    timerPending, deferredRuns, reg, menu, onlyToggles, toggleParity,
    activeLinks, last, sectionStyle, demoBox, ripples, rippleStyles, cardText, clicks, toasts, dataTheme,
    storage, storedBy>>

\* ------------------------------------------------------- markup and browser
\* href of a nav link: '#' followed by an element id.  Section k has id k;
\* id 0 is carried by no element of the document.
Hrefs == {<<"#", k>> : k \in 0..NSections}

\* document.querySelector(targetId) for an href '#id': the section with that
\* id, or null (0) when no element has it.
querySelector(href) ==
  IF href[1] = "#" /\ href[2] \in Sections THEN href[2] ELSE 0

\* Text a '.color-card__value' can show, and the text the markup gives each.
CardValues == {"#6366f1", "#ec4899"}
MarkupCardText == [c \in Cards |-> IF c = "primary" THEN "#6366f1" ELSE "#ec4899"]

\* activeLink: the link the markup marks 'active' (0: none); cardText: the
\* text of each card's '.color-card__value'.
Markups ==
  [hasToggle : BOOLEAN, hasMenu : BOOLEAN, hasNav : BOOLEAN,
   hasThemeToggle : BOOLEAN, hasCardValue : BOOLEAN,
   href : [Links -> Hrefs], activeLink : 0..NLinks,
   cardText : [Cards -> CardValues]]

\* hasRIC: 'requestIdleCallback' in window; hasIO: IntersectionObserver is
\* defined; hasClipboard: navigator.clipboard is defined; reducedMotion:
\* matchMedia('(prefers-reduced-motion: reduce)').matches.
Envs ==
  [hasRIC : BOOLEAN, hasIO : BOOLEAN, hasClipboard : BOOLEAN,
   reducedMotion : BOOLEAN]

\* Markup with every element the script looks for.
FullMarkup(mk) ==
  mk.hasToggle /\ mk.hasMenu /\ mk.hasNav /\ mk.hasThemeToggle /\ mk.hasCardValue

\* What a click can land on.  inMenu / inToggle: the element is a descendant
\* of (or is) '.nav__menu' / '.nav__toggle'.
Target(el, id, inMenu, inToggle) ==
  [el |-> el, id |-> id, inMenu |-> inMenu, inToggle |-> inToggle]

Keys == {"Escape", "Enter"}

\* ---------------------------------------------------------- mobile menu
\* The part of the document one event dispatch reads and writes.
\* errs: uncaught exceptions of the listeners run so far; scroll: the
\* window.scrollTo request made, if any (0: none, else the target section).
Dom(m, a) == [menu |-> m, active |-> a, errs |-> {}, scroll |-> 0]

\* A listener throws e: what it did before stays, the rest of it is skipped.
Throw(d, e) == [d EXCEPT !.errs = @ \cup {e}]

\* A definition marked Fault is a faulty variant of the one that follows it:
\* a claim that rests on the code fails once the variant takes its place.
\* Fault: closeMenu leaves aria-expanded as it is.
closeMenu_keepsAria(d) ==
  IF ~markup.hasMenu
    THEN Throw(d, "TypeError: navMenu is null")
    ELSE [d EXCEPT !.menu = [active |-> FALSE, bodyOpen |-> FALSE, aria |-> @.aria]]

closeMenu(d) ==
  IF ~markup.hasMenu
    THEN Throw(d, "TypeError: navMenu is null")
    ELSE [d EXCEPT !.menu = [active |-> FALSE, bodyOpen |-> FALSE, aria |-> "false"]]

openMenu(d) ==
  IF ~markup.hasMenu
    THEN Throw(d, "TypeError: navMenu is null")
    ELSE [d EXCEPT !.menu = [active |-> TRUE, bodyOpen |-> TRUE, aria |-> "true"]]

\* Fault: the toggle does not read aria-expanded and always opens.
toggleClickListener_alwaysOpen(d) == openMenu(d)

toggleClickListener(d) ==
  LET isExpanded == d.menu.aria = "true"
  IN  IF isExpanded THEN closeMenu(d) ELSE openMenu(d)

\* Fault: the links' close listener does nothing.
linkCloseListener_noop(d) == d

linkCloseListener(d) == closeMenu(d)

\* Fault: the body's listener does not look at the click's target.
bodyClickListener_ignoresTarget(d, target) ==
  IF d.menu.bodyOpen THEN closeMenu(d) ELSE d

bodyClickListener(d, target) ==
  IF ~d.menu.bodyOpen THEN d
  ELSE IF ~markup.hasMenu THEN Throw(d, "TypeError: navMenu is null")
  ELSE IF ~target.inMenu /\ ~target.inToggle THEN closeMenu(d)
  ELSE d

keydownListener(d, key) ==
  IF key = "Escape" /\ d.menu.bodyOpen THEN closeMenu(d) ELSE d

\* ------------------------------------------------------- smooth scroll
\* Fault: the other links keep their 'active' class.
smoothScrollListener_keepsOthers(d, link) ==
  LET targetId == markup.href[link]
      targetSection == querySelector(targetId)
  IN  IF targetSection = 0 THEN d
      ELSE IF ~markup.hasNav THEN Throw(d, "TypeError: .nav is null")
      ELSE [d EXCEPT !.scroll = targetSection, !.active = @ \cup {link}]

\* Fault: the active link is updated outside the `if (targetSection)`.
smoothScrollListener_alwaysActive(d, link) ==
  LET targetId == markup.href[link]
      targetSection == querySelector(targetId)
  IN  IF targetSection = 0 THEN [d EXCEPT !.active = {link}]
      ELSE IF ~markup.hasNav THEN Throw(d, "TypeError: .nav is null")
      ELSE [d EXCEPT !.scroll = targetSection, !.active = {link}]

\* A nav link's click listener: scroll to the target, if there is one (the
\* pixel offset, offsetTop - navHeight - 20, depends on layout only), and
\* make this link the only active one.
smoothScrollListener(d, link) ==
  LET targetId == markup.href[link]
      targetSection == querySelector(targetId)
  IN  IF targetSection = 0 THEN d
      ELSE IF ~markup.hasNav THEN Throw(d, "TypeError: .nav is null")
      ELSE [d EXCEPT !.scroll = targetSection, !.active = {link}]

\* ------------------------------------------------------------ theme toggle
\* Fault: the stored preference is not read.
initThemeToggle_ignoresStorage(p) ==
  [p EXCEPT !.dataTheme = <<"light">>,
            !.reg["theme"] = @ + (IF markup.hasThemeToggle THEN 1 ELSE 0)]

\* The theme toggle as the README gives it ("Manual Dark Mode
\* Implementation"); the README's init calls it first.  p is the part of the
\* page init writes (see InitPart).
initThemeToggle(p) ==
  LET savedTheme == IF storage = <<>> \/ storage = <<"">> THEN "light" ELSE storage[1]
  IN  [p EXCEPT !.dataTheme = <<savedTheme>>,
                !.reg["theme"] = @ + (IF markup.hasThemeToggle THEN 1 ELSE 0)]

\* The theme toggle's click listener: [dataTheme, storage] after the click.
themeClickListener(t) ==
  LET current == t.dataTheme
      newTheme == IF current = <<"light">> THEN "dark" ELSE "light"
  IN  [dataTheme |-> <<newTheme>>, storage |-> <<newTheme>>]

\* ----------------------------------------------------------- initializers
initMobileMenu(p) ==
  IF ~markup.hasToggle THEN p ELSE [p EXCEPT !.reg["menu"] = @ + 1]

initSmoothScroll(p) == [p EXCEPT !.reg["scroll"] = @ + 1]

\* Fault: without requestIdleCallback nothing is scheduled.
initWhenIdle_noFallback(p) ==
  IF env.hasRIC THEN [p EXCEPT !.idlePending = @ + 1] ELSE p

\* Fault: the callback is called at once instead of being scheduled.
initWhenIdle_callsNow(p) ==
  [p EXCEPT !.reg = [f \in Features |->
                       IF f \in {"copy", "demo", "ripple", "perf"} THEN @[f] + 1 ELSE @[f]]]

initWhenIdle(p) ==
  IF env.hasRIC
    THEN [p EXCEPT !.idlePending = @ + 1]
    ELSE [p EXCEPT !.timerPending = @ + 1]

init(p) ==
  initWhenIdle(initSmoothScroll(initMobileMenu(initThemeToggle(
    [p EXCEPT !.initRuns = @ + 1]))))

NoStyle == [opacity |-> "", transform |-> "", transition |-> ""]
HiddenStyle ==
  [opacity |-> "0", transform |-> "translateY(20px)",
   transition |-> "opacity 0.6s ease-out, transform 0.6s ease-out"]

\* The initializers of the deferred block work on
\* q = [reg, style, demo, styles, errs].
\* Fault: the reduced-motion preference is not read.
initScrollAnimations_ignoresPreference(q) ==
  IF ~env.hasIO
    THEN [q EXCEPT !.errs = @ \cup {"ReferenceError: IntersectionObserver is not defined"}]
  ELSE [q EXCEPT !.style = [s \in Sections |-> HiddenStyle],
                 !.reg["reveal"] = @ + 1]

initScrollAnimations(q) ==
  IF env.reducedMotion THEN q
  ELSE IF ~env.hasIO
    THEN [q EXCEPT !.errs = @ \cup {"ReferenceError: IntersectionObserver is not defined"}]
  ELSE [q EXCEPT !.style = [s \in Sections |-> HiddenStyle],
                 !.reg["reveal"] = @ + 1]

initColorCopy(q) == [q EXCEPT !.reg["copy"] = @ + 1]

\* Adds the restart listener to the box that is in the document now.
initAnimationDemos(q) ==
  [q EXCEPT !.reg["demo"] = @ + 1, !.demo.listeners = @ + 1]

initActiveNavOnScroll(q) ==
  IF ~env.hasIO
    THEN [q EXCEPT !.errs = @ \cup {"ReferenceError: IntersectionObserver is not defined"}]
    ELSE [q EXCEPT !.reg["activeNav"] = @ + 1]

\* Adds the click listener to every '.btn' and, unless the document holds
\* an element with id 'ripple-animation', the keyframes' style element.
initButtonRipple(q) ==
  [q EXCEPT !.reg["ripple"] = @ + 1,
            !.styles = IF @ = 0 THEN 1 ELSE @]

monitorPerformance(q) == [q EXCEPT !.reg["perf"] = @ + 1]

\* The callback init hands to initWhenIdle: each statement runs unless one
\* before it threw.
deferredBlock(q) ==
  LET q1 == initScrollAnimations(q)
      q2 == IF q1.errs # {} THEN q1 ELSE initColorCopy(q1)
      q3 == IF q2.errs # {} THEN q2 ELSE initAnimationDemos(q2)
      q4 == IF q3.errs # {} THEN q3 ELSE initActiveNavOnScroll(q3)
      q5 == IF q4.errs # {} THEN q4 ELSE initButtonRipple(q4)
  IN  IF q5.errs # {} THEN q5 ELSE monitorPerformance(q5)

\* ------------------------------------------------- copy to clipboard, toast
\* Fault: the card's text is read when the write resolves.
toastMessage_textAtResolve(click) ==
  <<"Copied ", cardText[click.card], " to clipboard!">>

\* The toast text: `Copied ${colorValue} to clipboard!`, as its three parts.
toastMessage(click) == <<"Copied ", click.value, " to clipboard!">>

Min(S) == CHOOSE x \in S : \A y \in S : x <= y

InDocument(ts) == {i \in DOMAIN ts : ts[i].inDoc}

\* Fault: while a toast is in the document a new one is not attached.
showToast_firstWins(ts, message, k) ==
  Append(ts,
    [text |-> message, click |-> k, inDoc |-> InDocument(ts) = {}, opacity |-> "0",
     transform |-> "translateY(20px)", raf |-> TRUE, timer |-> "3000"])

\* Fault: the existing toast is not removed.
showToast_keepsExisting(ts, message, k) ==
  Append(ts,
    [text |-> message, click |-> k, inDoc |-> TRUE, opacity |-> "0",
     transform |-> "translateY(20px)", raf |-> TRUE, timer |-> "3000"])

\* showToast(message), called for clipboard write k: the toasts afterwards.
\* document.querySelector('.toast') is the first toast in document order,
\* which is the oldest one attached.
showToast(ts, message, k) ==
  LET existing == InDocument(ts)
      removed == IF existing # {}
                   THEN [ts EXCEPT ![Min(existing)].inDoc = FALSE]
                   ELSE ts
  IN  Append(removed,
        [text |-> message, click |-> k, inDoc |-> TRUE, opacity |-> "0",
         transform |-> "translateY(20px)", raf |-> TRUE, timer |-> "3000"])

\* The card's click listener, on c = [dom, clicks]: reads the value, starts
\* the clipboard write.  A write is [card, value, state, toasts, logs] with
\* the history fields textAtClick (the card's text when the click happened),
\* toasts (showToast calls made for it) and logs (console.error calls).
cardClickListener(c, card) ==
  IF ~markup.hasCardValue
    THEN [c EXCEPT !.dom = Throw(@, "TypeError: '.color-card__value' is null")]
  ELSE IF ~env.hasClipboard
    THEN [c EXCEPT !.dom = Throw(@, "TypeError: navigator.clipboard is undefined")]
  ELSE LET colorValue == cardText[card]
       IN  [c EXCEPT !.clicks = Append(@,
             [card |-> card, value |-> colorValue, state |-> "pending",
              textAtClick |-> cardText[card], toasts |-> 0, logs |-> 0])]

\* The .then() callback of write k, on w = [clicks, toasts].
writeResolved(w, k) ==
  [clicks |-> [w.clicks EXCEPT ![k].state = "resolved", ![k].toasts = @ + 1],
   toasts |-> showToast(w.toasts, toastMessage(w.clicks[k]), k)]

\* Fault: the failure is shown in a toast.
writeRejected_showsToast(w, k) ==
  [clicks |-> [w.clicks EXCEPT ![k].state = "rejected", ![k].logs = @ + 1],
   toasts |-> showToast(w.toasts, <<"Failed to copy">>, k)]

\* The .catch() callback of write k.
writeRejected(w, k) ==
  [clicks |-> [w.clicks EXCEPT ![k].state = "rejected", ![k].logs = @ + 1],
   toasts |-> w.toasts]

\* ------------------------------------------------------- animation demos
\* The '.animation-box' of the markup.  gen: how many times the element in
\* the document was replaced by a clone; listeners: restart listeners on the
\* element now in the document; transform: its inline transform; timers:
\* pending 100 ms timers that clear that transform.
demoBox0 == [gen |-> 0, listeners |-> 0, transform |-> "", timers |-> 0]

\* The restart listener, on b = [dom, box, attached]; attached: `this`, the
\* element the click was dispatched to, is still in the document.
\* cloneNode(true) copies attributes (the inline style with them) but no
\* listeners.  The function is strict code (the file's 'use strict'), where
\* reading arguments.callee throws a TypeError: the statements after it, the
\* addEventListener call itself, the scale(0.95) feedback and its timer,
\* never run.
demoClickListener(b) ==
  IF ~b.attached
    THEN [b EXCEPT !.dom = Throw(@, "TypeError: parent is null")]
    ELSE [b EXCEPT !.box = [@ EXCEPT !.gen = @ + 1, !.listeners = 0, !.timers = 0],
                   !.attached = FALSE,
                   !.dom = Throw(@, "TypeError: 'callee' may not be accessed on strict mode functions")]

\* ----------------------------------------------------------- button ripple
\* Fault: the ripple is appended and no timer removes it.
buttonClickListener_startsNoTimer(r, button) ==
  [r EXCEPT !.ripples = Append(@, [button |-> button, inDoc |-> TRUE, timer |-> FALSE])]

\* Fault: every click injects the keyframes' style element.
buttonClickListener_injectsStyle(r, button) ==
  [r EXCEPT !.ripples = Append(@, [button |-> button, inDoc |-> TRUE, timer |-> TRUE]),
            !.styles = @ + 1]

\* A button's click listener, on r = [dom, ripples, styles]: appends one
\* ripple span to the button (its position, from the click's coordinates,
\* is layout only) and starts the 600 ms timer that removes it.
buttonClickListener(r, button) ==
  [r EXCEPT !.ripples = Append(@, [button |-> button, inDoc |-> TRUE, timer |-> TRUE])]

\* -------------------------------------------------------------- listeners
\* addEventListener keeps a list; a function registered n times (by n runs
\* of its initializer, each with a new closure) is called n times, in order.
\* Call is one call of the listener fn with its argument (the link, card,
\* click target or key) on the part of the page it works on.
Call(fn, arg, x) ==
  CASE fn = "init" -> init(x)
    [] fn = "toggleClick" -> toggleClickListener(x)
    [] fn = "linkClose" -> linkCloseListener(x)
    [] fn = "smoothScroll" -> smoothScrollListener(x, arg)
    [] fn = "bodyClick" -> bodyClickListener(x, arg)
    [] fn = "keydown" -> keydownListener(x, arg)
    [] fn = "cardClick" -> cardClickListener(x, arg)
    [] fn = "themeClick" -> themeClickListener(x)
    [] fn = "demoClick" -> demoClickListener(x)
    [] fn = "buttonClick" -> buttonClickListener(x, arg)

RECURSIVE Repeat(_, _, _, _)
Repeat(fn, arg, n, x) ==
  IF n = 0 THEN x ELSE Repeat(fn, arg, n - 1, Call(fn, arg, x))

\* ----------------------------------------------------------------- states
\* The record of a task: the event, its argument, the exceptions it left
\* uncaught, the scroll it requested, and what the menu, the active links
\* the theme attribute and the stored theme were when it started.
Event(ev, id, errs, scroll) ==
  [ev |-> ev, id |-> id, errs |-> errs, scroll |-> scroll,
   wasOpen |-> menu.bodyOpen, wasActive |-> activeLinks, wasTheme |-> dataTheme,
   wasStored |-> storage, wasDemo |-> demoBox, wasStyle |-> sectionStyle,
   wasRipples |-> ripples, wasClicks |-> Len(clicks)]

menu0 == [active |-> FALSE, bodyOpen |-> FALSE, aria |-> "false"]
reg0 == [f \in Features |-> 0]
\* What localStorage can hold under 'theme' when the page loads: nothing, a
\* value this script stored, or a string something else on the origin stored
\* under the same key ("auto" stands for any such string).
StoredThemes == {<<>>, <<"light">>, <<"dark">>, <<"auto">>}

\* The page as the browser built it from the markup, before the script runs.
InitWith(mks, ens) ==
  /\ markup \in mks
  /\ env \in ens
  /\ loads = 1
  /\ readyState \in {"loading", "interactive"}
  /\ booted = FALSE
  /\ dclListeners = 0
  /\ initRuns = 0
  /\ idlePending = 0
  /\ timerPending = 0
  /\ deferredRuns = 0
  /\ reg = reg0
  /\ menu = menu0
  /\ onlyToggles = FALSE
  /\ toggleParity = 0
  /\ activeLinks = (IF markup.activeLink = 0 THEN {} ELSE {markup.activeLink})
  /\ sectionStyle = [s \in Sections |-> NoStyle]
  /\ demoBox = demoBox0
  /\ ripples = <<>>
  /\ rippleStyles = 0
  /\ cardText = markup.cardText
  /\ clicks = <<>>
  /\ toasts = <<>>
  /\ dataTheme = <<>>
  /\ storage \in StoredThemes
  /\ storedBy = "initial"
  /\ last = Event("load", 0, {}, 0)

\* ---------------------------------------------------------------- startup
\* What init reads and writes, as a record.
InitPart ==
  [initRuns |-> initRuns, reg |-> reg, dataTheme |-> dataTheme,
   idlePending |-> idlePending, timerPending |-> timerPending]

\* n runs of init, one after the other.
RunInit(n) ==
  LET p == Repeat("init", 0, n, InitPart)
  IN  /\ initRuns' = p.initRuns
      /\ reg' = p.reg
      /\ dataTheme' = p.dataTheme
      /\ idlePending' = p.idlePending
      /\ timerPending' = p.timerPending
      /\ onlyToggles' = (IF n > 0 THEN TRUE ELSE onlyToggles)
      /\ toggleParity' = (IF n > 0 THEN 0 ELSE toggleParity)

\* Fault: while the document is loading init is both registered for
\* DOMContentLoaded and run at once.
Bootstrap_alsoRunsInit ==
  /\ ~booted
  /\ booted' = TRUE
  /\ dclListeners' = (IF readyState = "loading" THEN dclListeners + 1 ELSE dclListeners)
  /\ RunInit(1)
  /\ last' = Event("boot", 0, {}, 0)
  /\ UNCHANGED <<configVars, readyState, deferredRuns, menu, activeLinks,
                 sectionStyle, demoBox, rippleVars, copyVars, storage, storedBy>>

\* The script's top level: "Start when DOM is ready".
Bootstrap ==
  /\ ~booted
  /\ booted' = TRUE
  /\ IF readyState = "loading"
       THEN dclListeners' = dclListeners + 1 /\ RunInit(0)
       ELSE dclListeners' = dclListeners /\ RunInit(1)
  /\ last' = Event("boot", 0, {}, 0)
  /\ UNCHANGED <<configVars, readyState, deferredRuns, menu, activeLinks,
                 sectionStyle, demoBox, rippleVars, copyVars, storage, storedBy>>

\* The document finishes parsing: DOMContentLoaded is dispatched.
DOMContentLoaded ==
  /\ readyState = "loading"
  /\ readyState' = "interactive"
  /\ RunInit(dclListeners)
  /\ last' = Event("DOMContentLoaded", 0, {}, 0)
  /\ UNCHANGED <<configVars, booted, dclListeners, deferredRuns, menu,
                 activeLinks, sectionStyle, demoBox, rippleVars, copyVars, storage, storedBy>>

RunDeferred(ev) ==
  LET q == deferredBlock([reg |-> reg, style |-> sectionStyle, demo |-> demoBox,
                          styles |-> rippleStyles, errs |-> {}])
  IN  /\ deferredRuns' = deferredRuns + 1
      /\ reg' = q.reg
      /\ sectionStyle' = q.style
      /\ demoBox' = q.demo
      /\ rippleStyles' = q.styles
      /\ ripples' = ripples
      /\ last' = Event(ev, 0, q.errs, 0)

\* The browser is idle: one requestIdleCallback callback runs.
IdleCallback ==
  /\ idlePending > 0
  /\ idlePending' = idlePending - 1
  /\ RunDeferred("idle")
  /\ UNCHANGED <<configVars, readyState, booted, dclListeners, initRuns,
                 timerPending, menuVars, activeLinks, copyVars, themeVars>>

\* init's setTimeout(callback, 1) fires.
InitTimeout ==
  /\ timerPending > 0
  /\ timerPending' = timerPending - 1
  /\ RunDeferred("timeout")
  /\ UNCHANGED <<configVars, readyState, booted, dclListeners, initRuns,
                 idlePending, menuVars, activeLinks, copyVars, themeVars>>

\* ------------------------------------------------------------ input events
\* One click, dispatched: the listeners of the target (listeners), then,
\* bubbling, the body's click listener.
Dispatch(ev, id, target, d) ==
  LET d2 == Repeat("bodyClick", target, reg["menu"], d)
  IN  /\ menu' = d2.menu
      /\ activeLinks' = d2.active
      /\ last' = Event(ev, id, d2.errs, d2.scroll)

ToggleClick ==
  /\ markup.hasToggle
  /\ Dispatch("toggle", 0, Target("toggle", 0, FALSE, TRUE),
       Repeat("toggleClick", 0, reg["menu"], Dom(menu, activeLinks)))
  /\ toggleParity' = 1 - toggleParity
  /\ UNCHANGED <<configVars, lifecycleVars, onlyToggles, sectionStyle, demoBox, rippleVars,
                 copyVars, themeVars>>

LinkClick(l) ==
  /\ Dispatch("link", l, Target("link", l, TRUE, FALSE),
       Repeat("smoothScroll", l, reg["scroll"],
         Repeat("linkClose", 0, reg["menu"], Dom(menu, activeLinks))))
  /\ onlyToggles' = FALSE
  /\ UNCHANGED <<configVars, lifecycleVars, toggleParity, sectionStyle, demoBox, rippleVars,
                 copyVars, themeVars>>

\* A click on an element that carries no listener of its own, inside the
\* menu (inMenu) or elsewhere on the page.
OtherClick(inMenu) ==
  /\ Dispatch("other", IF inMenu THEN 1 ELSE 0,
       Target("other", 0, inMenu, FALSE), Dom(menu, activeLinks))
  /\ onlyToggles' = FALSE
  /\ UNCHANGED <<configVars, lifecycleVars, toggleParity, sectionStyle, demoBox, rippleVars,
                 copyVars, themeVars>>

KeyDown(key) ==
  LET d == Repeat("keydown", key, reg["menu"], Dom(menu, activeLinks))
  IN  /\ menu' = d.menu
      /\ last' = Event("key", IF key = "Escape" THEN 1 ELSE 0, d.errs, d.scroll)
      /\ onlyToggles' = FALSE
      /\ UNCHANGED <<configVars, lifecycleVars, toggleParity, activeLinks,
                     sectionStyle, demoBox, rippleVars, copyVars, themeVars>>

\* ------------------------------------------------- intersection observers
\* What an observer hands its callback: entries for distinct observed
\* sections, each intersecting or not, in any order.
Entries ==
  {e \in UNION {[1..n -> [target : Sections, isIntersecting : BOOLEAN]] :
                  n \in 1..NSections} :
     \A i, j \in DOMAIN e : i # j => e[i].target # e[j].target}

\* The links initActiveNavOnScroll's callback leaves active for one entry.
\* Fault: the other links keep their 'active' class.
activeNavEntry_keepsOthers(active, entry) ==
  IF entry.isIntersecting
    THEN LET id == entry.target
         IN  active \cup {l \in Links : markup.href[l] = <<"#", id>>}
    ELSE active

activeNavEntry(active, entry) ==
  IF entry.isIntersecting
    THEN LET id == entry.target
         IN  {l \in Links : markup.href[l] = <<"#", id>>}
    ELSE active

RECURSIVE activeNavCallback(_, _)
activeNavCallback(active, entries) ==
  IF entries = <<>> THEN active
  ELSE activeNavCallback(activeNavEntry(active, Head(entries)), Tail(entries))

\* Fault: an entry that is not intersecting hides its section again.
revealEntry_hidesWhenOut(style, entry) ==
  IF entry.isIntersecting
    THEN [style EXCEPT ![entry.target].opacity = "1",
                       ![entry.target].transform = "translateY(0)"]
    ELSE [style EXCEPT ![entry.target].opacity = "0",
                       ![entry.target].transform = "translateY(20px)"]

revealEntry(style, entry) ==
  IF entry.isIntersecting
    THEN [style EXCEPT ![entry.target].opacity = "1",
                       ![entry.target].transform = "translateY(0)"]
    ELSE style

RECURSIVE revealCallback(_, _)
revealCallback(style, entries) ==
  IF entries = <<>> THEN style
  ELSE revealCallback(revealEntry(style, Head(entries)), Tail(entries))

\* The sections a batch reports as intersecting, in the batch's order.
RECURSIVE Intersecting(_)
Intersecting(entries) ==
  IF entries = <<>> THEN <<>>
  ELSE IF Head(entries).isIntersecting
    THEN <<Head(entries).target>> \o Intersecting(Tail(entries))
    ELSE Intersecting(Tail(entries))

NavIntersect(entries) ==
  /\ reg["activeNav"] > 0
  /\ activeLinks' = activeNavCallback(activeLinks, entries)
  /\ last' = Event("navIO", Intersecting(entries), {}, 0)
  /\ UNCHANGED <<configVars, lifecycleVars, menuVars, sectionStyle, demoBox, rippleVars, copyVars,
                 themeVars>>

RevealIntersect(entries) ==
  /\ reg["reveal"] > 0
  /\ sectionStyle' = revealCallback(sectionStyle, entries)
  /\ last' = Event("revealIO", Intersecting(entries), {}, 0)
  /\ UNCHANGED <<configVars, lifecycleVars, menuVars, activeLinks, demoBox, rippleVars,
                 copyVars, themeVars>>

\* ------------------------------------------------ clipboard, toast: tasks
CardClick(card) ==
  LET c == Repeat("cardClick", card, reg["copy"],
             [dom |-> Dom(menu, activeLinks), clicks |-> clicks])
  IN  /\ Len(c.clicks) <= MaxClicks
      /\ clicks' = c.clicks
      /\ Dispatch("card", Len(c.clicks), Target("card", card, FALSE, FALSE), c.dom)
      /\ onlyToggles' = FALSE
      /\ UNCHANGED <<configVars, lifecycleVars, toggleParity, sectionStyle, demoBox, rippleVars,
                     cardText, toasts, themeVars>>

\* The clipboard write of click k succeeds.
WriteResolves(k) ==
  /\ k \in DOMAIN clicks
  /\ clicks[k].state = "pending"
  /\ LET w == writeResolved([clicks |-> clicks, toasts |-> toasts], k)
     IN  clicks' = w.clicks /\ toasts' = w.toasts
  /\ last' = Event("resolve", k, {}, 0)
  /\ UNCHANGED <<configVars, lifecycleVars, menuVars, activeLinks,
                 sectionStyle, demoBox, rippleVars, cardText, themeVars>>

\* The clipboard write of click k fails.
WriteRejects(k) ==
  /\ k \in DOMAIN clicks
  /\ clicks[k].state = "pending"
  /\ LET w == writeRejected([clicks |-> clicks, toasts |-> toasts], k)
     IN  clicks' = w.clicks /\ toasts' = w.toasts
  /\ last' = Event("reject", k, {}, 0)
  /\ UNCHANGED <<configVars, lifecycleVars, menuVars, activeLinks,
                 sectionStyle, demoBox, rippleVars, cardText, themeVars>>

\* Callbacks of one kind run in the order they were scheduled: toast i's
\* runs once no older toast still waits for one of the same kind.
ToastCallback(ev) ==
  /\ last' = Event(ev, 0, {}, 0)
  /\ UNCHANGED <<configVars, lifecycleVars, menuVars, activeLinks,
                 sectionStyle, demoBox, rippleVars, cardText, clicks, themeVars>>

\* showToast's requestAnimationFrame callback for toast i.
ToastFrame(i) ==
  /\ i \in DOMAIN toasts
  /\ toasts[i].raf
  /\ \A j \in 1..(i - 1) : ~toasts[j].raf
  /\ toasts' = [toasts EXCEPT ![i].opacity = "1",
                              ![i].transform = "translateY(0)",
                              ![i].raf = FALSE]
  /\ ToastCallback("frame")

\* Fault: the 3000 ms callback hides the toast and starts no 300 ms timer.
ToastHide_startsNoTimer(i) ==
  /\ i \in DOMAIN toasts
  /\ toasts[i].timer = "3000"
  /\ \A j \in 1..(i - 1) : toasts[j].timer # "3000"
  /\ toasts' = [toasts EXCEPT ![i].opacity = "0",
                              ![i].transform = "translateY(20px)",
                              ![i].timer = "done"]
  /\ ToastCallback("hide")

\* showToast's 3000 ms timer for toast i.
ToastHide(i) ==
  /\ i \in DOMAIN toasts
  /\ toasts[i].timer = "3000"
  /\ \A j \in 1..(i - 1) : toasts[j].timer # "3000"
  /\ toasts' = [toasts EXCEPT ![i].opacity = "0",
                              ![i].transform = "translateY(20px)",
                              ![i].timer = "300"]
  /\ ToastCallback("hide")

\* Fault: the 300 ms callback removes whichever toast the document holds.
ToastRemove_removesQueried(i) ==
  /\ i \in DOMAIN toasts
  /\ toasts[i].timer = "300"
  /\ \A j \in 1..(i - 1) : toasts[j].timer # "300"
  /\ toasts' = [j \in DOMAIN toasts |->
                  [toasts[j] EXCEPT
                     !.inDoc = IF InDocument(toasts) # {} /\ j = Min(InDocument(toasts))
                                 THEN FALSE ELSE @,
                     !.timer = IF j = i THEN "done" ELSE @]]
  /\ ToastCallback("remove")

\* The 300 ms timer that the 3000 ms timer starts.
ToastRemove(i) ==
  /\ i \in DOMAIN toasts
  /\ toasts[i].timer = "300"
  /\ \A j \in 1..(i - 1) : toasts[j].timer # "300"
  /\ toasts' = [toasts EXCEPT ![i].inDoc = FALSE, ![i].timer = "done"]
  /\ ToastCallback("remove")

\* The host page changes the text a card shows.
EditCardText(card, v) ==
  /\ cardText[card] # v
  /\ cardText' = [cardText EXCEPT ![card] = v]
  /\ last' = Event("edit", 0, {}, 0)
  /\ UNCHANGED <<configVars, lifecycleVars, menuVars, activeLinks,
                 sectionStyle, demoBox, rippleVars, clicks, toasts, themeVars>>

\* ------------------------------------------------ animation demos: tasks
\* A click on the animation box that is in the document.
DemoClick ==
  LET b == Repeat("demoClick", 0, demoBox.listeners,
             [dom |-> Dom(menu, activeLinks), box |-> demoBox, attached |-> TRUE])
  IN  /\ demoBox.gen < MaxRestarts
      /\ demoBox' = b.box
      /\ Dispatch("demo", 0, Target("demo", 0, FALSE, FALSE), b.dom)
      /\ onlyToggles' = FALSE
      /\ UNCHANGED <<configVars, lifecycleVars, toggleParity, sectionStyle,
                     rippleVars, copyVars, themeVars>>

\* -------------------------------------------------- button ripple: tasks
\* A click on a button.
ButtonClick(button) ==
  LET r == Repeat("buttonClick", button, reg["ripple"],
             [dom |-> Dom(menu, activeLinks), ripples |-> ripples,
              styles |-> rippleStyles])
  IN  /\ Len(r.ripples) <= MaxRipples
      /\ ripples' = r.ripples
      /\ rippleStyles' = r.styles
      /\ Dispatch("button", button, Target("button", button, FALSE, FALSE), r.dom)
      /\ onlyToggles' = FALSE
      /\ UNCHANGED <<configVars, lifecycleVars, toggleParity, sectionStyle,
                     demoBox, copyVars, themeVars>>

\* The 600 ms timer of ripple i; timers of equal delay fire in the order
\* they were started.
RippleTimeout(i) ==
  /\ i \in DOMAIN ripples
  /\ ripples[i].timer
  /\ \A j \in 1..(i - 1) : ~ripples[j].timer
  /\ ripples' = [ripples EXCEPT ![i].inDoc = FALSE, ![i].timer = FALSE]
  /\ last' = Event("rippleOut", i, {}, 0)
  /\ UNCHANGED <<configVars, lifecycleVars, menuVars, activeLinks,
                 sectionStyle, demoBox, rippleStyles, copyVars, themeVars>>

\* -------------------------------------------------------- theme, reloads
ThemeClick(inMenu) ==
  LET t == Repeat("themeClick", 0, reg["theme"],
             [dataTheme |-> dataTheme, storage |-> storage])
  IN  /\ markup.hasThemeToggle
      /\ dataTheme' = t.dataTheme
      /\ storage' = t.storage
      /\ storedBy' = (IF reg["theme"] > 0 THEN "toggle" ELSE storedBy)
      /\ Dispatch("theme", 0, Target("theme", 0, inMenu, FALSE),
           Dom(menu, activeLinks))
      /\ onlyToggles' = FALSE
      /\ UNCHANGED <<configVars, lifecycleVars, toggleParity, sectionStyle, demoBox, rippleVars,
                     copyVars>>

\* The user reloads: the same markup in the same browser, a new document;
\* only localStorage survives.
Reload ==
  /\ loads < MaxLoads
  /\ loads' = loads + 1
  /\ readyState' \in {"loading", "interactive"}
  /\ booted' = FALSE
  /\ dclListeners' = 0
  /\ initRuns' = 0
  /\ idlePending' = 0
  /\ timerPending' = 0
  /\ deferredRuns' = 0
  /\ reg' = reg0
  /\ menu' = menu0
  /\ onlyToggles' = FALSE
  /\ toggleParity' = 0
  /\ activeLinks' = (IF markup.activeLink = 0 THEN {} ELSE {markup.activeLink})
  /\ sectionStyle' = [s \in Sections |-> NoStyle]
  /\ demoBox' = demoBox0
  /\ ripples' = <<>>
  /\ rippleStyles' = 0
  /\ cardText' = markup.cardText
  /\ clicks' = <<>>
  /\ toasts' = <<>>
  /\ dataTheme' = <<>>
  /\ last' = Event("reload", 0, {}, 0)
  /\ UNCHANGED <<markup, env, storage, storedBy>>

\* ------------------------------------------------------- specifications
\* Each specification starts from InitWith over the markups and browsers it
\* explores and interleaves startup with the events of one part of the page.
Startup ==
  \/ Bootstrap
  \/ DOMContentLoaded
  \/ IdleCallback
  \/ InitTimeout

\* The mobile menu: any markup of the nav bar, clicks and key presses.
MenuMarkups ==
  {mk \in Markups : mk.hasThemeToggle /\ mk.hasCardValue /\ mk.activeLink \in {0, 1}}
MenuEnvs == {en \in Envs : en.hasClipboard /\ en.hasIO /\ ~en.reducedMotion}

InitMenu ==
  /\ InitWith(MenuMarkups, MenuEnvs)
  /\ markup.cardText = MarkupCardText
  /\ storage = <<>>

NextMenu ==
  \/ Startup
  \/ ToggleClick
  \/ \E l \in Links : LinkClick(l)
  \/ \E inMenu \in BOOLEAN : OtherClick(inMenu)
  \/ \E key \in Keys : KeyDown(key)

SpecMenu == InitMenu /\ [][NextMenu]_vars

\* The active nav link: link clicks against the observer's callbacks.
ScrollMarkups ==
  {mk \in Markups : mk.hasThemeToggle /\ mk.hasCardValue /\ mk.hasToggle
                      /\ mk.hasMenu /\ mk.hasNav /\ mk.activeLink \in {0, 1}}
ScrollEnvs == {en \in Envs : en.hasClipboard /\ en.hasIO /\ ~en.reducedMotion}

InitScroll ==
  /\ InitWith(ScrollMarkups, ScrollEnvs)
  /\ markup.cardText = MarkupCardText
  /\ storage = <<>>

NextScroll ==
  \/ Startup
  \/ \E l \in Links : LinkClick(l)
  \/ \E entries \in Entries : NavIntersect(entries)

SpecScroll == InitScroll /\ [][NextScroll]_vars

\* The reveal animation: any browser, the observer's callbacks.
RevealMarkups == {mk \in Markups : FullMarkup(mk) /\ mk.activeLink = 0
                    /\ mk.href = [l \in Links |-> <<"#", 0>>]}
RevealEnvs == {en \in Envs : en.hasClipboard}

InitReveal ==
  /\ InitWith(RevealMarkups, RevealEnvs)
  /\ markup.cardText = MarkupCardText
  /\ storage = <<>>

NextReveal ==
  \/ Startup
  \/ \E entries \in Entries : RevealIntersect(entries)
  \/ \E entries \in Entries : NavIntersect(entries)

SpecReveal == InitReveal /\ [][NextReveal]_vars

\* Copy to clipboard and the toast, on a page whose script runs once the
\* document is parsed: card clicks, the clipboard's answers, the toast's
\* frame and timer callbacks, and edits of the cards' text.
ToastMarkups ==
  {mk \in Markups : mk.hasToggle /\ mk.hasMenu /\ mk.hasNav /\ mk.hasThemeToggle
                      /\ mk.activeLink = 0
                      /\ mk.href = [l \in Links |-> <<"#", 0>>]}
ToastEnvs == {en \in Envs : en.hasRIC /\ en.hasIO /\ ~en.reducedMotion}

InitToast ==
  /\ InitWith(ToastMarkups, ToastEnvs)
  /\ readyState = "interactive"
  /\ markup.cardText = MarkupCardText
  /\ storage = <<>>

NextToast ==
  \/ Bootstrap
  \/ IdleCallback
  \/ \E card \in Cards : CardClick(card)
  \/ \E k \in 1..MaxClicks : WriteResolves(k)
  \/ \E k \in 1..MaxClicks : WriteRejects(k)
  \/ \E i \in 1..MaxClicks : ToastFrame(i)
  \/ \E i \in 1..MaxClicks : ToastHide(i)
  \/ \E i \in 1..MaxClicks : ToastRemove(i)
  \/ \E card \in Cards, v \in CardValues : EditCardText(card, v)

SpecToast == InitToast /\ [][NextToast]_vars

\* The same page under the browser's scheduling: a timer that was started
\* fires, an animation frame that was requested runs.
SpecToastFair ==
  /\ InitToast
  /\ [][NextToast]_vars
  /\ \A i \in 1..MaxClicks :
       WF_vars(ToastFrame(i)) /\ WF_vars(ToastHide(i)) /\ WF_vars(ToastRemove(i))

\* The theme: toggle clicks and reloads against any stored preference.
ThemeMarkups ==
  {mk \in Markups : mk.hasToggle /\ mk.hasMenu /\ mk.hasNav /\ mk.hasCardValue
                      /\ mk.activeLink = 0
                      /\ mk.href = [l \in Links |-> <<"#", 0>>]
                      /\ mk.cardText = MarkupCardText}
ThemeEnvs == {en \in Envs : en.hasIO /\ en.hasClipboard /\ ~en.reducedMotion}

InitTheme == InitWith(ThemeMarkups, ThemeEnvs)

NextTheme ==
  \/ Startup
  \/ \E inMenu \in BOOLEAN : ThemeClick(inMenu)
  \/ ToggleClick
  \/ \E l \in Links : LinkClick(l)
  \/ Reload

SpecTheme == InitTheme /\ [][NextTheme]_vars

\* The animation demos: clicks on the box, in any browser, across reloads.
DemoMarkups ==
  {mk \in Markups : FullMarkup(mk) /\ mk.activeLink = 0
                      /\ mk.href = [l \in Links |-> <<"#", 0>>]
                      /\ mk.cardText = MarkupCardText}
DemoEnvs == {en \in Envs : en.hasClipboard}

InitDemo == InitWith(DemoMarkups, DemoEnvs) /\ storage = <<>>

NextDemo ==
  \/ Startup
  \/ DemoClick
  \/ Reload

SpecDemo == InitDemo /\ [][NextDemo]_vars

\* Startup under the browser's scheduling, on complete markup in any browser
\* that has a clipboard, while the user works the menu.  The browser runs
\* the script, finishes parsing the document, and runs every idle callback
\* and every timer it was handed: each of these steps is weakly fair.
StartupMarkups ==
  {mk \in Markups : FullMarkup(mk) /\ mk.activeLink = 0
                      /\ mk.href = [l \in Links |-> <<"#", 0>>]
                      /\ mk.cardText = MarkupCardText}
StartupEnvs == {en \in Envs : en.hasClipboard}

InitStartup == InitWith(StartupMarkups, StartupEnvs) /\ storage = <<>>

NextStartup ==
  \/ Startup
  \/ ToggleClick
  \/ \E key \in Keys : KeyDown(key)

SpecStartup ==
  /\ InitStartup
  /\ [][NextStartup]_vars
  /\ WF_vars(Bootstrap)
  /\ WF_vars(DOMContentLoaded)
  /\ WF_vars(IdleCallback)
  /\ WF_vars(InitTimeout)

\* The button ripple under the browser's scheduling, across reloads: a
\* timer that was started fires.
RippleMarkups ==
  {mk \in Markups : FullMarkup(mk) /\ mk.activeLink = 0
                      /\ mk.href = [l \in Links |-> <<"#", 0>>]
                      /\ mk.cardText = MarkupCardText}
RippleEnvs == {en \in Envs : en.hasClipboard /\ ~en.reducedMotion}

InitRipple == InitWith(RippleMarkups, RippleEnvs) /\ storage = <<>>

NextRipple ==
  \/ Startup
  \/ \E button \in Buttons : ButtonClick(button)
  \/ \E i \in 1..MaxRipples : RippleTimeout(i)
  \/ Reload

SpecRipple ==
  /\ InitRipple
  /\ [][NextRipple]_vars
  /\ \A i \in 1..MaxRipples : WF_vars(RippleTimeout(i))

\* Initialization across page loads, on complete markup: startup in either
\* readyState, then clicks on the toggle and on the cards.
InitOnceMarkups ==
  {mk \in Markups : FullMarkup(mk) /\ mk.activeLink = 0
                      /\ mk.href = [l \in Links |-> <<"#", 0>>]
                      /\ mk.cardText = MarkupCardText}
InitOnceEnvs == {en \in Envs : en.hasClipboard /\ en.hasIO /\ ~en.reducedMotion}

InitInitOnce == InitWith(InitOnceMarkups, InitOnceEnvs) /\ storage = <<>>

NextInitOnce ==
  \/ Startup
  \/ ToggleClick
  \/ \E card \in Cards : CardClick(card)
  \/ Reload

SpecInitOnce == InitInitOnce /\ [][NextInitOnce]_vars

MenuClosed == ~menu.active /\ ~menu.bodyOpen /\ menu.aria = "false"
MenuOpen == menu.active /\ menu.bodyOpen /\ menu.aria = "true"

\* C1: with the toggle and the menu in the markup, after n clicks on the
\* toggle and no other input event since init the menu is open (class
\* 'active', aria-expanded "true") iff n is odd, and closed (no class,
\* aria-expanded "false") iff n is even.
C1_ToggleFlips ==
  (markup.hasToggle /\ markup.hasMenu /\ onlyToggles) =>
    IF toggleParity = 1
      THEN menu.active /\ menu.aria = "true"
      ELSE ~menu.active /\ menu.aria = "false"

\* The second click of a run of toggle clicks has closed the menu again.
C1_Witness ==
  /\ markup.hasToggle /\ markup.hasMenu /\ onlyToggles
  /\ last.ev = "toggle" /\ last.wasOpen /\ toggleParity = 0 /\ MenuClosed

\* C2: a click on a nav link always ends with the menu closed; Escape, or a
\* click outside the menu and the toggle, while the menu is open ends with
\* it closed.
C2_CloseTriggers ==
  (\/ last.ev = "link"
   \/ (last.wasOpen /\ last.ev = "key" /\ last.id = 1)
   \/ (last.wasOpen /\ last.ev = "other" /\ last.id = 0))
    => MenuClosed

\* A link was clicked while the menu was open.
C2_Witness ==
  last.ev = "link" /\ last.wasOpen /\ MenuClosed

\* C3: the menu's 'active' class, the body's 'menu-open' class and
\* aria-expanded="true" on the toggle are all present or all absent.
C3_MenuAriaAgree ==
  /\ menu.active = menu.bodyOpen
  /\ menu.bodyOpen = (menu.aria = "true")

\* The menu was opened and closed again by a key press.
C3_Witness ==
  last.ev = "key" /\ last.wasOpen /\ MenuClosed

\* C4: the document holds at most one toast element, whatever the order of
\* showToast calls, animation frames and the toasts' timers.
C4_SingleToast == Cardinality(InDocument(toasts)) <= 1

\* A second toast replaced the first while the first's timers were pending.
C4_Witness ==
  /\ Len(toasts) = 2 /\ toasts[2].inDoc
  /\ ~toasts[1].inDoc /\ toasts[1].timer = "3000"

\* C5: for every card click whose clipboard write resolved, exactly one
\* toast was created for it, with the text `Copied <value> to clipboard!`
\* where <value> is the card's text at the time of the click.
C5_CopyFeedback ==
  \A k \in DOMAIN clicks :
    clicks[k].state = "resolved" =>
      /\ clicks[k].toasts = 1
      /\ Cardinality({i \in DOMAIN toasts : toasts[i].click = k}) = 1
      /\ \A i \in DOMAIN toasts :
           toasts[i].click = k =>
             toasts[i].text = <<"Copied ", clicks[k].textAtClick, " to clipboard!">>

\* A write resolved after the card's text had changed since the click.
C5_Witness ==
  /\ last.ev = "resolve" /\ clicks[last.id].state = "resolved"
  /\ cardText[clicks[last.id].card] # clicks[last.id].textAtClick

\* C6: the step in which a clipboard write is rejected logs one console
\* error for that click and changes nothing else: no toast is created, the
\* toasts are as they were, and no further write is started.
C6_RejectOnlyLogs ==
  [][\A k \in DOMAIN clicks :
       (clicks[k].state = "pending" /\ k \in DOMAIN clicks'
          /\ clicks'[k].state = "rejected") =>
         /\ toasts' = toasts
         /\ clicks' = [clicks EXCEPT ![k].state = "rejected", ![k].logs = 1]
         /\ clicks'[k].toasts = 0
         /\ UNCHANGED <<menu, activeLinks, sectionStyle, demoBox, rippleVars, cardText, dataTheme,
                        storage, reg>>]_vars

\* A write was rejected while a toast was in the document.
C6_Witness ==
  /\ last.ev = "reject" /\ clicks[last.id].state = "rejected"
  /\ clicks[last.id].logs = 1 /\ InDocument(toasts) # {}

LinksTo(section) == {l \in Links : markup.href[l] = <<"#", section>>}

\* Markup in which every section is the target of exactly one nav link.
OneLinkPerSection == \A s \in Sections : Cardinality(LinksTo(s)) = 1

\* C8 as stated, on markup with one link per section: after a callback that
\* reports a section as intersecting, exactly one link is active and it is
\* that section's link; and no two links are ever active at once.
C8_ExactlyOneActive ==
  OneLinkPerSection =>
    /\ Cardinality(activeLinks) <= 1
    /\ (last.ev = "navIO") =>
         \A i \in DOMAIN last.id :
           /\ Cardinality(activeLinks) = 1
           /\ activeLinks = LinksTo(last.id[i])

\* C8, amended: after a callback that reports sections as intersecting, the
\* active links are exactly the links whose href is '#' + the id of the last
\* intersecting entry of the batch; and in every state any two active links
\* have the same href, so with pairwise distinct hrefs at most one is active.
C8_ActiveMatchesLastEntry ==
  /\ \A l1, l2 \in activeLinks : markup.href[l1] = markup.href[l2]
  /\ (last.ev = "navIO" /\ last.id # <<>>) =>
       activeLinks = LinksTo(last.id[Len(last.id)])

\* A callback replaced the active link by the link of the section that the
\* last intersecting entry of a two-entry batch names.
C8_Witness ==
  /\ last.ev = "navIO" /\ Len(last.id) = 2
  /\ Cardinality(activeLinks) = 1
  /\ last.wasActive # {} /\ last.wasActive # activeLinks

\* C9: with the reduced-motion preference set, no section ever has its
\* opacity, transform or transition written by the script.
C9_ReducedMotion ==
  env.reducedMotion => \A s \in Sections : sectionStyle[s] = NoStyle

\* The deferred block has run under reduced motion and intersection
\* callbacks have been delivered since.
C9_Witness ==
  /\ env.reducedMotion /\ deferredRuns > 0 /\ reg["copy"] > 0
  /\ last.ev = "navIO" /\ last.id # <<>>

C12_DemoStaysRebound ==
  /\ reg["demo"] > 0 => demoBox.listeners > 0
  /\ (last.ev = "demo" /\ last.wasDemo.listeners > 0) =>
       /\ last.errs = {}
       /\ demoBox.gen = last.wasDemo.gen + 1
       /\ demoBox.listeners > 0
       /\ demoBox.transform = "scale(0.95)"
       /\ demoBox.timers > 0

\* The first click on the box replaced it and left an uncaught TypeError.
C12_Witness ==
  /\ last.ev = "demo" /\ last.wasDemo.listeners = 1 /\ last.wasDemo.gen = 0
  /\ demoBox.gen = 1 /\ last.errs # {}

\* What the code does: the first click after initialization replaces the box
\* with a clone that carries no listener and no feedback and leaves a
\* TypeError uncaught; the box is never replaced again.
C12_RestartsOnce ==
  /\ demoBox.gen <= 1 /\ demoBox.transform = "" /\ demoBox.timers = 0
  /\ demoBox.gen = 1 => demoBox.listeners = 0
  /\ (last.ev = "demo" /\ last.wasDemo.listeners > 0) =>
       (last.errs # {} /\ demoBox.gen = 1 /\ demoBox.listeners = 0)

\* C13 as stated: in a browser with every API, whatever elements the markup
\* lacks, no task (initializer or listener) leaves an error uncaught.
C13_MissingHarmless ==
  (env.hasIO /\ env.hasClipboard) => last.errs = {}

\* The toggle was clicked on a page with a toggle and no menu container:
\* openMenu dereferenced the missing menu.
C13_Witness ==
  /\ markup.hasToggle /\ ~markup.hasMenu /\ reg["menu"] > 0
  /\ last.ev = "toggle" /\ last.errs # {}

\* What the code does guard: without the toggle initMobileMenu registers
\* nothing, so the menu never changes and, the '.nav' bar being present, no
\* task leaves an error uncaught.
C13_MissingToggleHarmless ==
  ~markup.hasToggle =>
    /\ reg["menu"] = 0 /\ menu = menu0
    /\ (markup.hasNav /\ env.hasIO /\ env.hasClipboard) => last.errs = {}

\* C14 as stated: without IntersectionObserver, once the deferred block has
\* run, copy-to-clipboard, demo restart, ripple and the performance log are
\* initialized, the reveal animation and the scroll-driven highlighting are
\* not, and the block left no error uncaught.
C14_Degrades ==
  (~env.hasIO /\ deferredRuns > 0) =>
    /\ \A f \in {"copy", "demo", "ripple", "perf"} : reg[f] > 0
    /\ reg["reveal"] = 0 /\ reg["activeNav"] = 0
    /\ last.ev \in {"idle", "timeout"} => last.errs = {}

\* The deferred block ran without IntersectionObserver and stopped at its
\* first statement.
C14_Witness ==
  /\ ~env.hasIO /\ ~env.reducedMotion /\ deferredRuns > 0
  /\ last.ev \in {"idle", "timeout"} /\ last.errs # {}
  /\ \A f \in Features \ {"theme", "menu", "scroll"} : reg[f] = 0

\* What the code does without IntersectionObserver: the deferred block
\* stops with a ReferenceError at the first `new IntersectionObserver`.
\* That is in initScrollAnimations, before anything is initialized, unless
\* reduced motion makes it return first; then it is in
\* initActiveNavOnScroll, after copy-to-clipboard and demo restart.  Ripple
\* and the performance log are never initialized.
C14_StopsAtObserver ==
  (~env.hasIO /\ deferredRuns > 0) =>
    /\ reg["reveal"] = 0 /\ reg["activeNav"] = 0
    /\ reg["ripple"] = 0 /\ reg["perf"] = 0
    /\ (reg["copy"] > 0) = env.reducedMotion
    /\ (reg["demo"] > 0) = env.reducedMotion
    /\ last.ev \in {"idle", "timeout"} => last.errs # {}

\* What init leaves registered for each immediate feature, per run.
ImmediateDone ==
  /\ reg["scroll"] = initRuns
  /\ reg["menu"] = (IF markup.hasToggle THEN initRuns ELSE 0)
  /\ reg["theme"] = (IF markup.hasThemeToggle THEN initRuns ELSE 0)

C16_DeferredEventually ==
  /\ [](deferredRuns <= 1)
  /\ <>[](deferredRuns = 1 /\ idlePending = 0 /\ timerPending = 0)

\* Without requestIdleCallback, the timer has run the deferred block.
C16_Witness ==
  /\ ~env.hasRIC /\ deferredRuns = 1 /\ idlePending = 0 /\ timerPending = 0
  /\ initRuns = 1

\* C17: a toast that is in the document is eventually out of it; and a step
\* that takes a toast out of the document without creating a new one is the
\* toast's own 300 ms timer, which only its 3000 ms timer starts, after
\* setting the toast to hidden.
C17_ToastLifetime ==
  /\ \A i \in 1..MaxClicks :
       (i \in DOMAIN toasts /\ toasts[i].inDoc)
         ~> (i \notin DOMAIN toasts \/ ~toasts[i].inDoc)
  /\ [][\A i \in DOMAIN toasts :
          (toasts[i].inDoc /\ ~toasts'[i].inDoc /\ Len(toasts') = Len(toasts)) =>
            (toasts[i].timer = "300" /\ toasts'[i].timer = "done")]_vars
  /\ [][\A i \in DOMAIN toasts :
          (toasts[i].timer # "300" /\ toasts'[i].timer = "300") =>
            (toasts[i].timer = "3000" /\ toasts'[i].opacity = "0"
               /\ toasts'[i].transform = "translateY(20px)")]_vars

\* A toast that nothing superseded was shown, hidden and removed.
C17_Witness ==
  /\ Len(toasts) = 1 /\ ~toasts[1].inDoc /\ toasts[1].timer = "done"
  /\ ~toasts[1].raf /\ last.ev = "remove"

\* C18: a toast that is in the document is the one the most recent
\* showToast call created, and its text is the message of the clipboard
\* write that call was made for, the most recently resolved one.
C18_LatestToastWins ==
  \A i \in InDocument(toasts) :
    /\ i = Len(toasts)
    /\ clicks[toasts[i].click].state = "resolved"
    /\ toasts[i].text = <<"Copied ", clicks[toasts[i].click].textAtClick,
                          " to clipboard!">>

\* The 300 ms timer of a superseded toast fired while the later toast, with
\* another text, was in the document.
C18_Witness ==
  /\ Len(toasts) = 2 /\ toasts[2].inDoc /\ toasts[2].timer = "3000"
  /\ toasts[1].timer = "done" /\ last.ev = "remove"
  /\ toasts[1].text # toasts[2].text

\* C19: a frame or timer callback changes only the toast it was scheduled
\* for; and the most recent toast is in the document until its own 300 ms
\* timer has fired, whatever callbacks of earlier toasts fire meanwhile.
C19_SupersededHarmless ==
  /\ [](\A j \in DOMAIN toasts :
         (j = Len(toasts) /\ toasts[j].timer # "done") => toasts[j].inDoc)
  /\ [][Len(toasts') = Len(toasts) =>
          \A j \in DOMAIN toasts :
            toasts'[j] # toasts[j] =>
              /\ (toasts[j].raf /\ ~toasts'[j].raf) \/ toasts'[j].timer # toasts[j].timer
              /\ \A k \in DOMAIN toasts \ {j} : toasts'[k] = toasts[k]]_vars

\* The 3000 ms timer of a superseded toast fired while the later toast was
\* shown in the document.
C19_Witness ==
  /\ Len(toasts) = 2 /\ last.ev = "hide" /\ toasts[1].timer = "300"
  /\ ~toasts[1].inDoc /\ toasts[2].inDoc
  /\ toasts[2].opacity = "1" /\ toasts[2].timer = "3000"

\* C20: once init has run, a click on a nav link whose target exists
\* requests the scroll to it and leaves that link the only active one; a
\* callback that reports intersecting sections leaves active the links of
\* the last one it reports; every other task leaves the active links as
\* they were.  So the active links are always those set by the most recent
\* successful link click or intersecting callback.
C20_ClickSetsActive ==
  IF last.ev = "link" /\ reg["scroll"] > 0
       /\ querySelector(markup.href[last.id]) # 0
    THEN /\ activeLinks = {last.id}
         /\ last.scroll = querySelector(markup.href[last.id])
         /\ last.errs = {}
  ELSE IF last.ev = "navIO" /\ last.id # <<>>
    THEN activeLinks = {l \in Links : markup.href[l] = <<"#", last.id[Len(last.id)]>>}
  ELSE activeLinks = last.wasActive

\* A click on a link whose target exists took the active class from
\* another link.
C20_Witness ==
  /\ last.ev = "link" /\ reg["scroll"] > 0
  /\ querySelector(markup.href[last.id]) # 0
  /\ last.wasActive # {} /\ last.id \notin last.wasActive
  /\ activeLinks = {last.id}

RevealedStyle ==
  [opacity |-> "1", transform |-> "translateY(0)",
   transition |-> "opacity 0.6s ease-out, transform 0.6s ease-out"]

\* C21: without reduced motion, the deferred block that runs
\* initScrollAnimations leaves every section hidden; a reveal callback
\* leaves revealed each section it reports intersecting and leaves every
\* other section as it was, hidden or revealed; and no other task touches a
\* section's style.  So a section is hidden until the first callback that
\* reports it intersecting and revealed from then on.
C21_OneShotReveal ==
  ~env.reducedMotion =>
    IF last.ev \in {"idle", "timeout"} /\ reg["reveal"] > 0
      THEN \A s \in Sections : sectionStyle[s] = HiddenStyle
    ELSE IF last.ev = "revealIO"
      THEN \A s \in Sections :
             IF \E i \in DOMAIN last.id : last.id[i] = s
               THEN sectionStyle[s] = RevealedStyle
               ELSE /\ sectionStyle[s] = last.wasStyle[s]
                    /\ sectionStyle[s] \in {HiddenStyle, RevealedStyle}
    ELSE sectionStyle = last.wasStyle

\* A callback whose entries were all non-intersecting was delivered when
\* every section was revealed, and every section is still revealed.
C21_Witness ==
  /\ ~env.reducedMotion /\ last.ev = "revealIO" /\ last.id = <<>>
  /\ \A s \in Sections : last.wasStyle[s] = RevealedStyle
  /\ \A s \in Sections : sectionStyle[s] = RevealedStyle

RipplesIn(button) ==
  {i \in DOMAIN ripples : ripples[i].inDoc /\ ripples[i].button = button}

\* C22: once initButtonRipple has run, a click on a button adds exactly one
\* ripple, to that button, and changes no other; the 600 ms timer of a
\* ripple removes that ripple and no other; and every ripple in a button is
\* eventually out of it.
C22_RippleCleanup ==
  /\ []((last.ev = "button" /\ reg["ripple"] > 0) =>
          /\ Len(ripples) = Len(last.wasRipples) + 1
          /\ ripples[Len(ripples)].button = last.id
          /\ ripples[Len(ripples)].inDoc
          /\ \A i \in DOMAIN last.wasRipples : ripples[i] = last.wasRipples[i])
  /\ [](last.ev = "rippleOut" =>
          /\ last.wasRipples[last.id].inDoc /\ ~ripples[last.id].inDoc
          /\ \A i \in DOMAIN ripples \ {last.id} : ripples[i] = last.wasRipples[i])
  /\ \A i \in 1..MaxRipples :
       (i \in DOMAIN ripples /\ ripples[i].inDoc)
         ~> (i \notin DOMAIN ripples \/ ~ripples[i].inDoc)

\* The first of two overlapping ripples in one button was removed by its
\* timer while the second was still in the button.
C22_Witness ==
  /\ last.ev = "rippleOut" /\ last.id = 1 /\ Len(ripples) = 2
  /\ ripples[1].button = ripples[2].button
  /\ ~ripples[1].inDoc /\ ripples[2].inDoc /\ ripples[2].timer

C23_OutsideClick ==
  /\ (markup.hasToggle /\ markup.hasMenu /\ reg["menu"] > 0) =>
       /\ (last.ev = "toggle" /\ ~last.wasOpen) => (MenuOpen /\ last.errs = {})
       /\ (last.ev = "other" /\ last.id = 1 /\ last.wasOpen) =>
            (MenuOpen /\ last.errs = {})
  /\ ((last.ev = "other" /\ last.id = 0) \/ last.ev = "key") /\ ~last.wasOpen
       => (MenuClosed /\ last.errs = {})

\* A click inside the open menu, on no link, left it open.
C23_Witness ==
  /\ markup.hasToggle /\ markup.hasMenu /\ reg["menu"] > 0
  /\ last.ev = "other" /\ last.id = 1 /\ last.wasOpen /\ MenuOpen

\* C24: on every page load init runs at most once, and exactly once as
\* soon as the script has run and the document is parsed; so no listener is
\* registered twice, a click on the toggle flips the menu once and a click
\* on a card starts one clipboard write.
C24_SingleInit ==
  /\ initRuns <= 1 /\ dclListeners <= 1 /\ deferredRuns <= 1
  /\ (booted /\ readyState = "interactive") => initRuns = 1
  /\ initRuns = 1 => booted
  /\ \A f \in Features : reg[f] <= 1
  /\ demoBox.listeners <= 1
  /\ (last.ev = "toggle" /\ reg["menu"] > 0) => menu.bodyOpen = ~last.wasOpen
  /\ (last.ev = "card" /\ reg["copy"] > 0) => Len(clicks) = last.wasClicks + 1

\* On a reloaded page whose init ran from DOMContentLoaded, a card click
\* started one write.
C24_Witness ==
  /\ loads = 2 /\ dclListeners = 1 /\ initRuns = 1 /\ reg["copy"] = 1
  /\ last.ev = "card" /\ Len(clicks) = last.wasClicks + 1

====
